---- MODULE Spec2Model ----
(***************************************************************************)
(* Verification model of src/model/EEG.py (NeuroTransNet).                 *)
(*                                                                         *)
(* Three specifications share the module's variables:                      *)
(*   SpecPool : EnhancedVariancePooling.forward, run window by window on   *)
(*              a small tensor of exact (integer) samples;                 *)
(*   SpecAttn : attention() and AdvancedMultiHeadAttention.forward, on     *)
(*              tensor shapes;                                             *)
(*   SpecFwd  : NeuroTransNet.__init__ and NeuroTransNet.forward, stage by *)
(*              stage, on tensor shapes and the module's buffers.          *)
(* A tensor shape is a sequence of naturals. Variances are exact rationals *)
(* (numerator, denominator), so the clamp bounds 1e-6 and 1e6 are compared *)
(* exactly; floating-point rounding is not modelled.                       *)
(***************************************************************************)
EXTENDS Integers, Sequences, FiniteSets, TLC

VARIABLES
    \* EnhancedVariancePooling (SpecPool)
    kernel_size,    \* self.kernel_size
    stride,         \* self.stride
    vp_x,           \* the input x, one sequence of samples per row (batch x feature)
    vp_i,           \* the loop variable i
    vp_input,       \* the local input: the slice taken by the last iteration, per row
    vp_out,         \* the python list out: one [row -> emitted value] per window
    vp_result,      \* the returned tensor (row -> sequence) once concatenated
    vp_pc,          \* "loop", "cat", "done", "error"
    \* attention / AdvancedMultiHeadAttention (SpecAttn)
    at_query, at_key, at_value,   \* shapes of the three arguments
    at_n_head,      \* self.n_head, 0 when attention() is called directly
    at_d_model,     \* d_model of the enclosing AdvancedMultiHeadAttention
    at_out, at_attn,\* shapes of the two tensors attention() returns
    at_res,         \* shape of the tensor passed three times to the multi-head forward
    at_ret,         \* shape of the tensor the multi-head forward returns
    at_pc,          \* "call", "mha", "attention", "returned", "project", "done", "error"
    \* NeuroTransNet (SpecFwd)
    cfg,            \* the constructor's arguments
    model,          \* what __init__ stored in self
    training,       \* nn.Module.training
    buffers,        \* the buffers of the three BatchNorm2d layers
    inp,            \* shape of forward's argument
    x, x1, x2, x3, x4,  \* shapes of forward's locals
    lin1, lin2,     \* lineage of x1 and x2 through the transformer blocks
    applied,        \* log of transformer block applications
    k_blk,          \* position of the for loop over self.transformer_blocks
    calls,          \* number of forward invocations started
    fail_stage,     \* the stage that raised, "" when none
    pc              \* position in __init__ / forward

vpVars == <<kernel_size, stride, vp_x, vp_i, vp_input, vp_out, vp_result, vp_pc>>
atVars == <<at_query, at_key, at_value, at_n_head, at_d_model, at_out, at_attn,
            at_res, at_ret, at_pc>>
fwVars == <<cfg, model, training, buffers, inp, x, x1, x2, x3, x4, lin1, lin2,
            applied, k_blk, calls, fail_stage, pc>>
vars == <<vpVars, atVars, fwVars>>

NoShape == <<>>

(***************************************************************************)
(* Bounds of the explored inputs.                                          *)
(***************************************************************************)
MaxT == 3
MaxKernel == 3
MaxStride == 2
MaxDim == 2
MaxDepth == 4
MaxCalls == 2
Rows == {1, 2}
Samples == {0, 1, 2000}

(***************************************************************************)
(* Idle values of the variables a specification does not use.              *)
(***************************************************************************)
vpIdle ==
    /\ kernel_size = 1
    /\ stride = 1
    /\ vp_x = [r \in Rows |-> <<>>]
    /\ vp_i = 0
    /\ vp_input = [r \in Rows |-> <<>>]
    /\ vp_out = <<>>
    /\ vp_result = [r \in Rows |-> <<>>]
    /\ vp_pc = "idle"

atIdle ==
    /\ at_query = NoShape
    /\ at_key = NoShape
    /\ at_value = NoShape
    /\ at_n_head = 0
    /\ at_d_model = 0
    /\ at_out = NoShape
    /\ at_attn = NoShape
    /\ at_res = NoShape
    /\ at_ret = NoShape
    /\ at_pc = "idle"

fwIdle ==
    /\ cfg = <<>>
    /\ model = <<>>
    /\ training = FALSE
    /\ buffers = <<>>
    /\ inp = NoShape
    /\ x = NoShape
    /\ x1 = NoShape
    /\ x2 = NoShape
    /\ x3 = NoShape
    /\ x4 = NoShape
    /\ lin1 = <<>>
    /\ lin2 = <<>>
    /\ applied = <<>>
    /\ k_blk = 0
    /\ calls = 0
    /\ fail_stage = ""
    /\ pc = "idle"

(***************************************************************************)
(* EnhancedVariancePooling                                                 *)
(***************************************************************************)

\* Python's a // b for b > 0 (floor division, also for negative a).
FloorDiv(a, b) == IF a >= 0 THEN a \div b ELSE -((-a + b - 1) \div b)

\* Mutants of OutShape: the "+ 1" forgotten; the division rounded up.
OutShapeNoPlusOne(t, k, s) == FloorDiv(t - k, s)

OutShapeCeil(t, k, s) == FloorDiv(t - k + s - 1, s) + 1

\* out_shape = (t - self.kernel_size) // self.stride + 1
OutShape(t, k, s) == FloorDiv(t - k, s) + 1

\* range(n): empty when n <= 0
Range(n) == 0 .. (n - 1)

\* x[:, :, index:index+k] on one row: python slicing silently stops at the end
Slice(row, index, k) ==
    LET hi == IF index + k <= Len(row) THEN index + k ELSE Len(row)
    IN  [j \in 1 .. (IF hi > index THEN hi - index ELSE 0) |-> row[index + j]]

RECURSIVE SumSeq(_)
SumSeq(s) == IF s = <<>> THEN 0 ELSE Head(s) + SumSeq(Tail(s))

Squares(s) == [j \in 1 .. Len(s) |-> s[j] * s[j]]

\* Tensor.var(dim=-1) with the default Bessel correction, as an exact fraction:
\* var = (n*sum(x^2) - sum(x)^2) / (n*(n-1)), which is 0/0 (NaN) for n = 1.
Var(w) ==
    LET n == Len(w)
        num == n * SumSeq(Squares(w)) - SumSeq(w) * SumSeq(w)
        den == n * (n - 1)
    IN  IF den = 0 THEN [nan |-> TRUE,  num |-> 0,   den |-> 0]
                   ELSE [nan |-> FALSE, num |-> num, den |-> den]

ClampMin == [nan |-> FALSE, num |-> 1, den |-> 1000000]
ClampMax == [nan |-> FALSE, num |-> 1000000, den |-> 1]

\* v < 1e-6 and v > 1e6 for a fraction v with den > 0, without overflow
BelowMin(v) == v.num <= (v.den - 1) \div 1000000
AboveMax(v) == (v.num + 999999) \div 1000000 > v.den

\* Mutant of Clamp: the lower bound is not applied.
ClampNoMin(v) ==
    IF v.nan THEN v
    ELSE IF AboveMax(v) THEN ClampMax
    ELSE v

\* torch.clamp(v, 1e-6, 1e6): NaN propagates
Clamp(v) ==
    IF v.nan THEN v
    ELSE IF BelowMin(v) THEN ClampMin
    ELSE IF AboveMax(v) THEN ClampMax
    ELSE v

\* torch.log(a): kept symbolic as the argument a
Log(a) == [log |-> a]

\* output = torch.log(torch.clamp(input.var(dim=-1, keepdim=True), 1e-6, 1e6))
WindowOutput(input) == Log(Clamp(Var(input)))

InitPool ==
    /\ kernel_size \in 1 .. MaxKernel
    /\ stride \in 1 .. MaxStride
    /\ \E t \in 0 .. MaxT : vp_x \in [Rows -> [1 .. t -> Samples]]
    /\ vp_i = 0
    /\ vp_input = [r \in Rows |-> <<>>]
    /\ vp_out = <<>>
    /\ vp_result = [r \in Rows |-> <<>>]
    /\ vp_pc = "loop"
    /\ atIdle
    /\ fwIdle

VpT == Len(vp_x[1])

\* one iteration of "for i in range(out_shape)"
VpWindow ==
    /\ vp_pc = "loop"
    /\ vp_i \in Range(OutShape(VpT, kernel_size, stride))
    /\ LET index == vp_i * stride
       IN  vp_input' = [r \in Rows |-> Slice(vp_x[r], index, kernel_size)]
    /\ vp_out' = Append(vp_out, [r \in Rows |-> WindowOutput(vp_input'[r])])
    /\ vp_i' = vp_i + 1
    /\ UNCHANGED <<kernel_size, stride, vp_x, vp_result, vp_pc>>
    /\ UNCHANGED <<atVars, fwVars>>

\* the loop is exhausted
VpLoopExit ==
    /\ vp_pc = "loop"
    /\ vp_i \notin Range(OutShape(VpT, kernel_size, stride))
    /\ vp_pc' = "cat"
    /\ UNCHANGED <<kernel_size, stride, vp_x, vp_i, vp_input, vp_out, vp_result>>
    /\ UNCHANGED <<atVars, fwVars>>

\* out = torch.cat(out, dim=-1): raises on an empty list
VpCat ==
    /\ vp_pc = "cat"
    /\ IF vp_out = <<>>
       THEN /\ vp_pc' = "error"
            /\ UNCHANGED vp_result
       ELSE /\ vp_pc' = "done"
            /\ vp_result' = [r \in Rows |-> [j \in 1 .. Len(vp_out) |-> vp_out[j][r]]]
    /\ UNCHANGED <<kernel_size, stride, vp_x, vp_i, vp_input, vp_out>>
    /\ UNCHANGED <<atVars, fwVars>>

NextPool == VpWindow \/ VpLoopExit \/ VpCat

SpecPool == InitPool /\ [][NextPool]_vars

\* nn.AvgPool1d(kernel, stride) on a length-t axis (no padding, ceil_mode False):
\* one output per window start 0, stride, 2*stride, ... that fits entirely.
AvgPool1dLen(t, k, s) == Cardinality({p \in 0 .. t : p % s = 0 /\ p + k <= t})

\* self.temporal_embedding_dim = (num_samples - pool_size) // pool_stride + 1
TemporalEmbeddingDim(num_samples, pool_size, pool_stride) ==
    FloorDiv(num_samples - pool_size, pool_stride) + 1

(***************************************************************************)
(* Shape algebra of the tensor library calls the source makes.  A result   *)
(* is [ok |-> BOOLEAN, shape |-> sequence]; ok = FALSE is a raised error.  *)
(***************************************************************************)
Ok(shape) == [ok |-> TRUE, shape |-> shape]
Err == [ok |-> FALSE, shape |-> NoShape]

\* the sizes two operands give to the einsum subscript l
LabelSizes(la, A, lb, B, l) ==
    {A[i] : i \in {n \in 1 .. Len(la) : la[n] = l}} \cup
    {B[i] : i \in {n \in 1 .. Len(lb) : lb[n] = l}}

\* sizes of one subscript must match or be 1 (torch.einsum broadcasts size 1)
Broadcastable(S) == Cardinality(S \ {1}) <= 1

BroadcastSize(S) == IF S \ {1} = {} THEN 1 ELSE CHOOSE n \in S \ {1} : TRUE

\* torch.einsum('<la>,<lb>-><lo>', A, B)
Einsum(la, lb, lo, A, B) ==
    IF Len(A) # Len(la) \/ Len(B) # Len(lb) THEN Err
    ELSE IF \E i \in 1 .. Len(la) : ~Broadcastable(LabelSizes(la, A, lb, B, la[i])) THEN Err
    ELSE IF \E i \in 1 .. Len(lb) : ~Broadcastable(LabelSizes(la, A, lb, B, lb[i])) THEN Err
    ELSE Ok([i \in 1 .. Len(lo) |-> BroadcastSize(LabelSizes(la, A, lb, B, lo[i]))])

\* nn.Linear(in_features, out_features) applied to a tensor
Linear(in_features, out_features, s) ==
    IF Len(s) = 0 \/ s[Len(s)] # in_features THEN Err
    ELSE Ok([i \in 1 .. Len(s) |-> IF i = Len(s) THEN out_features ELSE s[i]])

(***************************************************************************)
(* attention and AdvancedMultiHeadAttention                                *)
(***************************************************************************)

\* scores = torch.einsum('bhqd,bhkd->bhqk', query, key) / dim**.5
\* attn = F.softmax(scores, dim=-1)      (both keep the shape)
AttnWeights(query, key) ==
    Einsum(<<"b", "h", "q", "d">>, <<"b", "h", "k", "d">>, <<"b", "h", "q", "k">>,
           query, key)

\* Mutant of AttnOut: the output laid out along the key axis.
AttnOutAlongKeys(attn, value) ==
    Einsum(<<"b", "h", "q", "k">>, <<"b", "h", "k", "d">>, <<"b", "h", "k", "d">>,
           attn, value)

\* out = torch.einsum('bhqk,bhkd->bhqd', attn, value)
AttnOut(attn, value) ==
    Einsum(<<"b", "h", "q", "k">>, <<"b", "h", "k", "d">>, <<"b", "h", "q", "d">>,
           attn, value)

\* rearrange(t, "b n (h d) -> b h n d", h=h)
SplitHeads(s, h) ==
    IF Len(s) # 3 \/ h = 0 THEN Err
    ELSE IF s[3] % h # 0 THEN Err
    ELSE Ok(<<s[1], h, s[2], s[3] \div h>>)

\* rearrange(out, 'b h q d -> b q (h d)')
MergeHeads(s) ==
    IF Len(s) # 4 THEN Err ELSE Ok(<<s[1], s[3], s[2] * s[4]>>)

\* self.d_k = self.d_v = d_model // n_head
HeadDim(d_model, n_head) == d_model \div n_head

\* q = rearrange(self.w_q(query), ...), likewise k and v
MhaProjection(d_model, n_head, s) ==
    LET lin == Linear(d_model, n_head * HeadDim(d_model, n_head), s)
    IN  IF lin.ok THEN SplitHeads(lin.shape, n_head) ELSE Err

Shapes4 == [1 .. 4 -> 1 .. MaxDim]

InitAttn ==
    /\ \/ /\ at_pc = "call"
          /\ at_query \in Shapes4
          /\ at_key \in {s \in Shapes4 : s[2] = at_query[2]}
          /\ at_value \in {s \in Shapes4 : s[2] = at_query[2]}
          /\ at_n_head = 0
          /\ at_d_model = 0
          /\ at_res = NoShape
       \/ /\ at_pc = "mha"
          /\ at_n_head \in 1 .. MaxDim
          /\ at_d_model \in 1 .. 2 * MaxDim
          /\ at_res \in {<<b, n, e>> : b \in 1 .. MaxDim, n \in 1 .. MaxDim + 1,
                                       e \in {at_d_model, at_d_model + 1}}
          /\ at_query = NoShape
          /\ at_key = NoShape
          /\ at_value = NoShape
    /\ at_out = NoShape
    /\ at_attn = NoShape
    /\ at_ret = NoShape
    /\ vpIdle
    /\ fwIdle

\* AdvancedMultiHeadAttention.forward, lines 55-57: the three projections
MhaProject ==
    /\ at_pc = "mha"
    /\ LET q == MhaProjection(at_d_model, at_n_head, at_res)
           k == MhaProjection(at_d_model, at_n_head, at_res)
           v == MhaProjection(at_d_model, at_n_head, at_res)
       IN  IF q.ok /\ k.ok /\ v.ok
           THEN /\ at_query' = q.shape
                /\ at_key' = k.shape
                /\ at_value' = v.shape
                /\ at_pc' = "attention"
           ELSE /\ at_pc' = "error"
                /\ UNCHANGED <<at_query, at_key, at_value>>
    /\ UNCHANGED <<at_n_head, at_d_model, at_out, at_attn, at_res, at_ret>>
    /\ UNCHANGED <<vpVars, fwVars>>

\* attention(query, key, value), called directly or from the multi-head forward
Attention ==
    /\ at_pc \in {"call", "attention"}
    /\ LET attn == AttnWeights(at_query, at_key)
           out == IF attn.ok THEN AttnOut(attn.shape, at_value) ELSE Err
       IN  IF out.ok
           THEN /\ at_out' = out.shape
                /\ at_attn' = attn.shape
                /\ at_pc' = IF at_pc = "call" THEN "returned" ELSE "project"
           ELSE /\ at_pc' = "error"
                /\ UNCHANGED <<at_out, at_attn>>
    /\ UNCHANGED <<at_query, at_key, at_value, at_n_head, at_d_model, at_res, at_ret>>
    /\ UNCHANGED <<vpVars, fwVars>>

\* AdvancedMultiHeadAttention.forward, lines 61-64
MhaOutput ==
    /\ at_pc = "project"
    /\ LET merged == MergeHeads(at_out)
           o == IF merged.ok
                THEN Linear(at_n_head * HeadDim(at_d_model, at_n_head), at_d_model,
                            merged.shape)
                ELSE Err
       IN  IF o.ok
           THEN /\ at_ret' = o.shape
                /\ at_pc' = "done"
           ELSE /\ at_pc' = "error"
                /\ UNCHANGED at_ret
    /\ UNCHANGED <<at_query, at_key, at_value, at_n_head, at_d_model, at_out, at_attn, at_res>>
    /\ UNCHANGED <<vpVars, fwVars>>

NextAttn == MhaProject \/ Attention \/ MhaOutput

SpecAttn == InitAttn /\ [][NextAttn]_vars

(***************************************************************************)
(* NeuroTransNet: layers                                                   *)
(***************************************************************************)

\* defaults of NeuroTransNet.__init__
DefaultNumClasses == 4
DefaultNumChannels == 22
DefaultPoolSize == 50
DefaultPoolStride == 15
DefaultFcRatio == 4

\* nn.Conv2d(122, 64, (2, 1)) of self.feature_encoder
EncoderInChannels == 122
EncoderOutChannels == 64

\* kernel widths of the four temporal convolutions
TemporalKernel == <<15, 25, 51, 65>>

\* Mutant of TemporalPadding: the third padding one short.
TemporalPaddingShort == <<7, 12, 24, 32>>

\* paddings of the four temporal convolutions
TemporalPadding == <<7, 12, 25, 32>>

\* nn.Conv2d(in_ch, out_ch, (kh, kw), padding=(ph, pw)) applied to a 4-D tensor
\* (a 3-D tensor is taken as unbatched)
Conv2d(in_ch, out_ch, kh, kw, ph, pw, s) ==
    IF Len(s) \notin {3, 4} THEN Err
    ELSE LET o == Len(s) - 3
         IN  IF s[o + 1] # in_ch THEN Err
             ELSE IF s[o + 2] + 2 * ph < kh \/ s[o + 3] + 2 * pw < kw THEN Err
             ELSE Ok([i \in 1 .. Len(s) |->
                        IF i = o + 1 THEN out_ch
                        ELSE IF i = o + 2 THEN s[i] + 2 * ph - kh + 1
                        ELSE IF i = o + 3 THEN s[i] + 2 * pw - kw + 1
                        ELSE s[i]])

\* torch.cat((a, b, ...), dim=d): all other dimensions must agree
Cat(ts, d) ==
    IF \E i \in 1 .. Len(ts) :
          \/ Len(ts[i]) # Len(ts[1])
          \/ \E j \in 1 .. Len(ts[1]) : j # d + 1 /\ ts[i][j] # ts[1][j]
    THEN Err
    ELSE Ok([j \in 1 .. Len(ts[1]) |->
               IF j = d + 1 THEN SumSeq([i \in 1 .. Len(ts) |-> ts[i][j]]) ELSE ts[1][j]])

\* Tensor.unsqueeze(dim=d)
Unsqueeze(s, d) ==
    [j \in 1 .. Len(s) + 1 |-> IF j <= d THEN s[j] ELSE IF j = d + 1 THEN 1 ELSE s[j - 1]]

\* Tensor.squeeze(dim=d): a no-op unless that dimension has size 1
Squeeze(s, d) ==
    IF Len(s) > d /\ s[d + 1] = 1
    THEN [j \in 1 .. Len(s) - 1 |-> IF j <= d THEN s[j] ELSE s[j + 1]]
    ELSE s

FreshBatchNorm == [num_batches_tracked |-> 0, running_updates |-> 0]

\* Mutant of BatchNorm2d: the statistics are tracked in evaluation mode too.
BatchNorm2dAlwaysTracks(buf, num_features, train, s) ==
    IF Len(s) # 4 THEN [ok |-> FALSE, shape |-> NoShape, buf |-> buf]
    ELSE IF s[2] # num_features
         THEN [ok |-> FALSE, shape |-> NoShape,
               buf |-> [buf EXCEPT !.num_batches_tracked = @ + 1]]
         ELSE [ok |-> TRUE, shape |-> s,
               buf |-> [num_batches_tracked |-> buf.num_batches_tracked + 1,
                        running_updates |-> buf.running_updates + 1]]

\* nn.BatchNorm2d(num_features) applied to a tensor. In training mode the layer
\* first adds 1 to num_batches_tracked, then normalises with the batch
\* statistics and folds them into running_mean / running_var (counted here as
\* running_updates); a channel mismatch raises in between. In evaluation mode
\* the buffers are only read.
BatchNorm2d(buf, num_features, train, s) ==
    IF Len(s) # 4 THEN [ok |-> FALSE, shape |-> NoShape, buf |-> buf]
    ELSE LET counted == IF train THEN [buf EXCEPT !.num_batches_tracked = @ + 1]
                                 ELSE buf
         IN  IF s[2] # num_features
             THEN [ok |-> FALSE, shape |-> NoShape, buf |-> counted]
             ELSE [ok |-> TRUE, shape |-> s,
                   buf |-> IF train THEN [counted EXCEPT !.running_updates = @ + 1]
                                    ELSE counted]

\* nn.AvgPool1d(kernel, stride) applied to a 2-D or 3-D tensor
AvgPool1d(k, st, s) ==
    IF Len(s) \notin {2, 3} \/ st = 0 THEN Err
    ELSE IF s[Len(s)] < k THEN Err
    ELSE Ok([j \in 1 .. Len(s) |->
               IF j = Len(s) THEN AvgPool1dLen(s[j], k, st) ELSE s[j]])

\* EnhancedVariancePooling.forward on a shape: range(out_shape) slices of the
\* third axis, each reduced on its last axis (keepdim), concatenated there
VariancePooling(k, st, s) ==
    IF Len(s) < 3 THEN Err
    ELSE IF OutShape(s[3], k, st) <= 0 THEN Err
    ELSE IF Len(s) = 3 THEN Ok(<<s[1], s[2], OutShape(s[3], k, st)>>)
    ELSE Ok([j \in 1 .. Len(s) |->
               IF j = 3 THEN k
               ELSE IF j = Len(s) THEN OutShape(s[3], k, st)
               ELSE s[j]])

\* rearrange(t, 'b d n -> b n d')
RearrangeBDN(s) == IF Len(s) # 3 THEN Err ELSE Ok(<<s[1], s[3], s[2]>>)

\* nn.LayerNorm(embed_dim) applied to a tensor
LayerNorm(normalized, s) ==
    IF Len(s) = 0 \/ s[Len(s)] # normalized THEN Err ELSE Ok(s)

\* AdvancedMultiHeadAttention.forward(res, res, res)
MultiHeadAttention(d_model, n_head, res) ==
    LET q == MhaProjection(d_model, n_head, res)
        attn == IF q.ok THEN AttnWeights(q.shape, q.shape) ELSE Err
        out == IF attn.ok THEN AttnOut(attn.shape, q.shape) ELSE Err
        merged == IF out.ok THEN MergeHeads(out.shape) ELSE Err
    IN  IF merged.ok
        THEN Linear(n_head * HeadDim(d_model, n_head), d_model, merged.shape)
        ELSE Err

\* AdvancedFeedForward.forward
FeedForward(d_model, d_hidden, s) ==
    LET h == Linear(d_model, d_hidden, s)
    IN  IF h.ok THEN Linear(d_hidden, d_model, h.shape) ELSE Err

\* a + b on tensors of the same shape
Add(a, b) == IF a.ok /\ b.ok /\ a.shape = b.shape THEN a ELSE Err

\* EnhancedTransformerBlock.forward
TransformerBlock(embed_dim, num_heads, fc_ratio, data) ==
    LET res == LayerNorm(embed_dim, data)
        mha == IF res.ok THEN MultiHeadAttention(embed_dim, num_heads, res.shape) ELSE Err
        out == Add(Ok(data), mha)
        res2 == IF out.ok THEN LayerNorm(embed_dim, out.shape) ELSE Err
        ff == IF res2.ok THEN FeedForward(embed_dim, embed_dim * fc_ratio, res2.shape)
                         ELSE Err
    IN  Add(out, ff)

\* x.reshape(x.size(0), -1)
Flatten(s) ==
    LET RECURSIVE prod(_)
        prod(j) == IF j > Len(s) THEN 1 ELSE s[j] * prod(j + 1)
    IN  <<s[1], prod(2)>>

(***************************************************************************)
(* NeuroTransNet.__init__                                                  *)
(***************************************************************************)
NumSamplesChoices == {1000, 1865}
EmbedDimChoices == {32, 30}
NumHeadsChoices == {0, 5, 8}
BatchChoices == {2}
InputChannelChoices == {21, 22, 23}
InputSampleChoices == {1, 1000, 1865}

Configs ==
    [num_classes : {DefaultNumClasses},
     num_samples : NumSamplesChoices,
     num_channels : {DefaultNumChannels},
     embed_dim : EmbedDimChoices,
     pool_size : {DefaultPoolSize},
     pool_stride : {DefaultPoolStride},
     num_heads : NumHeadsChoices,
     fc_ratio : {DefaultFcRatio},
     depth : 0 .. MaxDepth]

InitFwd ==
    /\ cfg \in Configs
    /\ model = <<>>
    /\ training = TRUE
    /\ buffers = <<>>
    /\ inp = NoShape
    /\ x = NoShape
    /\ x1 = NoShape
    /\ x2 = NoShape
    /\ x3 = NoShape
    /\ x4 = NoShape
    /\ lin1 = <<>>
    /\ lin2 = <<>>
    /\ applied = <<>>
    /\ k_blk = 0
    /\ calls = 0
    /\ fail_stage = ""
    /\ pc = "new"
    /\ vpIdle
    /\ atIdle

\* the instances [EnhancedTransformerBlock(...) for i in range(depth)], by identity
BlockStack(depth) == [i \in 1 .. depth |-> i]

\* what raises inside __init__: pool_stride = 0 and num_heads = 0 divide by
\* zero, a negative in_features cannot be allocated
InitRaises(c) ==
    \/ c.pool_stride = 0
    \/ c.depth > 0 /\ c.num_heads = 0
    \/ c.embed_dim * TemporalEmbeddingDim(c.num_samples, c.pool_size, c.pool_stride) < 0

\* NeuroTransNet.__init__
Construct ==
    /\ pc = "new"
    /\ IF InitRaises(cfg)
       THEN /\ pc' = "init_raised"
            /\ UNCHANGED <<model, buffers>>
       ELSE /\ pc' = "ready"
            /\ model' =
                 [temporal_out |-> cfg.embed_dim \div 4,
                  batch_norm1 |-> cfg.embed_dim,
                  spatial_kernel |-> cfg.num_channels,
                  batch_norm2 |-> cfg.embed_dim,
                  pool_size |-> cfg.pool_size,
                  pool_stride |-> cfg.pool_stride,
                  temporal_embedding_dim |->
                      TemporalEmbeddingDim(cfg.num_samples, cfg.pool_size, cfg.pool_stride),
                  transformer_blocks |-> BlockStack(cfg.depth),
                  encoder_in |-> EncoderInChannels,
                  encoder_out |-> EncoderOutChannels,
                  classifier_in |-> cfg.embed_dim *
                      TemporalEmbeddingDim(cfg.num_samples, cfg.pool_size, cfg.pool_stride),
                  classifier_out |-> cfg.num_classes]
            /\ buffers' = [batch_norm1 |-> FreshBatchNorm,
                           batch_norm2 |-> FreshBatchNorm,
                           feature_encoder |-> FreshBatchNorm]
    /\ UNCHANGED <<cfg, training, inp, x, x1, x2, x3, x4, lin1, lin2, applied, k_blk,
                   calls, fail_stage>>
    /\ UNCHANGED <<vpVars, atVars>>

Between == pc \in {"ready", "returned", "raised"}

\* nn.Module.train() / nn.Module.eval(), between two invocations
SetMode ==
    /\ Between
    /\ training' = ~training
    /\ UNCHANGED <<cfg, model, buffers, inp, x, x1, x2, x3, x4, lin1, lin2, applied,
                   k_blk, calls, fail_stage, pc>>
    /\ UNCHANGED <<vpVars, atVars>>

(***************************************************************************)
(* NeuroTransNet.forward, one action per stage                             *)
(***************************************************************************)

\* what no stage of forward assigns
fwFixed == <<cfg, model, training, inp, calls>>

Raise(stage) == pc' = "raised" /\ fail_stage' = stage

Goto(stage) == pc' = stage /\ fail_stage' = ""

\* a caller invokes forward(x) with a 3-D tensor
Call ==
    /\ Between
    /\ calls < MaxCalls
    /\ inp' \in {<<b, c, t>> : b \in BatchChoices, c \in InputChannelChoices,
                                t \in InputSampleChoices}
    /\ calls' = calls + 1
    /\ x' = NoShape
    /\ x1' = NoShape
    /\ x2' = NoShape
    /\ x3' = NoShape
    /\ x4' = NoShape
    /\ lin1' = <<>>
    /\ lin2' = <<>>
    /\ applied' = <<>>
    /\ k_blk' = 0
    /\ Goto("unsqueeze")
    /\ UNCHANGED <<cfg, model, training, buffers>>
    /\ UNCHANGED <<vpVars, atVars>>

\* x = x.unsqueeze(dim=1)
FwUnsqueeze ==
    /\ pc = "unsqueeze"
    /\ x' = Unsqueeze(inp, 1)
    /\ Goto("temporal_conv")
    /\ UNCHANGED <<x1, x2, x3, x4, lin1, lin2, applied, k_blk, buffers>>
    /\ UNCHANGED fwFixed
    /\ UNCHANGED <<vpVars, atVars>>

\* self.temporal_conv_small / medium / large / xlarge, by index 1..4
TemporalConv(i, s) ==
    Conv2d(1, model.temporal_out, 1, TemporalKernel[i], 0, TemporalPadding[i], s)

\* x1 .. x4 = the four temporal convolutions of x
FwTemporalConv ==
    /\ pc = "temporal_conv"
    /\ IF \A i \in 1 .. 4 : TemporalConv(i, x).ok
       THEN /\ x1' = TemporalConv(1, x).shape
            /\ x2' = TemporalConv(2, x).shape
            /\ x3' = TemporalConv(3, x).shape
            /\ x4' = TemporalConv(4, x).shape
            /\ Goto("cat")
       ELSE /\ Raise("temporal_conv")
            /\ UNCHANGED <<x1, x2, x3, x4>>
    /\ UNCHANGED <<x, lin1, lin2, applied, k_blk, buffers>>
    /\ UNCHANGED fwFixed
    /\ UNCHANGED <<vpVars, atVars>>

\* x = torch.cat((x1, x2, x3, x4), dim=1)
FwCat ==
    /\ pc = "cat"
    /\ LET r == Cat(<<x1, x2, x3, x4>>, 1)
       IN  IF r.ok THEN x' = r.shape /\ Goto("batch_norm1")
                   ELSE Raise("cat") /\ UNCHANGED x
    /\ UNCHANGED <<x1, x2, x3, x4, lin1, lin2, applied, k_blk, buffers>>
    /\ UNCHANGED fwFixed
    /\ UNCHANGED <<vpVars, atVars>>

\* x = self.batch_norm1(x)
FwBatchNorm1 ==
    /\ pc = "batch_norm1"
    /\ LET r == BatchNorm2d(buffers.batch_norm1, model.batch_norm1, training, x)
       IN  /\ buffers' = [buffers EXCEPT !.batch_norm1 = r.buf]
           /\ IF r.ok THEN x' = r.shape /\ Goto("spatial_conv")
                      ELSE Raise("batch_norm1") /\ UNCHANGED x
    /\ UNCHANGED <<x1, x2, x3, x4, lin1, lin2, applied, k_blk>>
    /\ UNCHANGED fwFixed
    /\ UNCHANGED <<vpVars, atVars>>

\* Mutant of SpatialConv: a kernel of height 1 instead of num_channels.
SpatialConvPointwise(s) ==
    Conv2d(model.batch_norm1, model.batch_norm1, 1, 1, 0, 0, s)

\* self.spatial_conv = nn.Conv2d(embed_dim, embed_dim, (num_channels, 1))
SpatialConv(s) ==
    Conv2d(model.batch_norm1, model.batch_norm1, model.spatial_kernel, 1, 0, 0, s)

\* x = self.spatial_conv(x)
FwSpatialConv ==
    /\ pc = "spatial_conv"
    /\ LET r == SpatialConv(x)
       IN  IF r.ok THEN x' = r.shape /\ Goto("batch_norm2")
                   ELSE Raise("spatial_conv") /\ UNCHANGED x
    /\ UNCHANGED <<x1, x2, x3, x4, lin1, lin2, applied, k_blk, buffers>>
    /\ UNCHANGED fwFixed
    /\ UNCHANGED <<vpVars, atVars>>

\* x = self.batch_norm2(x)
FwBatchNorm2 ==
    /\ pc = "batch_norm2"
    /\ LET r == BatchNorm2d(buffers.batch_norm2, model.batch_norm2, training, x)
       IN  /\ buffers' = [buffers EXCEPT !.batch_norm2 = r.buf]
           /\ IF r.ok THEN x' = r.shape /\ Goto("squeeze")
                      ELSE Raise("batch_norm2") /\ UNCHANGED x
    /\ UNCHANGED <<x1, x2, x3, x4, lin1, lin2, applied, k_blk>>
    /\ UNCHANGED fwFixed
    /\ UNCHANGED <<vpVars, atVars>>

\* x = self.activation(x); x = x.squeeze(dim=2)
FwSqueeze ==
    /\ pc = "squeeze"
    /\ x' = Squeeze(x, 2)
    /\ Goto("average_pooling")
    /\ UNCHANGED <<x1, x2, x3, x4, lin1, lin2, applied, k_blk, buffers>>
    /\ UNCHANGED fwFixed
    /\ UNCHANGED <<vpVars, atVars>>

\* x1 = self.average_pooling(x)
FwAveragePooling ==
    /\ pc = "average_pooling"
    /\ LET r == AvgPool1d(model.pool_size, model.pool_stride, x)
       IN  IF r.ok THEN x1' = r.shape /\ Goto("variance_pooling")
                   ELSE Raise("average_pooling") /\ UNCHANGED x1
    /\ UNCHANGED <<x, x2, x3, x4, lin1, lin2, applied, k_blk, buffers>>
    /\ UNCHANGED fwFixed
    /\ UNCHANGED <<vpVars, atVars>>

\* x2 = self.variance_pooling(x)
FwVariancePooling ==
    /\ pc = "variance_pooling"
    /\ LET r == VariancePooling(model.pool_size, model.pool_stride, x)
       IN  IF r.ok THEN x2' = r.shape /\ Goto("rearrange")
                   ELSE Raise("variance_pooling") /\ UNCHANGED x2
    /\ UNCHANGED <<x, x1, x3, x4, lin1, lin2, applied, k_blk, buffers>>
    /\ UNCHANGED fwFixed
    /\ UNCHANGED <<vpVars, atVars>>

\* x1, x2 = dropout, then rearrange 'b d n -> b n d'; the for loop starts
FwRearrange ==
    /\ pc = "rearrange"
    /\ LET r1 == RearrangeBDN(x1)
           r2 == RearrangeBDN(x2)
       IN  IF r1.ok /\ r2.ok
           THEN /\ x1' = r1.shape
                /\ x2' = r2.shape
                /\ lin1' = [origin |-> "mean", blocks |-> <<>>]
                /\ lin2' = [origin |-> "variance", blocks |-> <<>>]
                /\ k_blk' = 0
                /\ Goto("transformer_x1")
           ELSE /\ Raise("rearrange")
                /\ UNCHANGED <<x1, x2, lin1, lin2, k_blk>>
    /\ UNCHANGED <<x, x3, x4, applied, buffers>>
    /\ UNCHANGED fwFixed
    /\ UNCHANGED <<vpVars, atVars>>

\* the block the loop variable transformer is bound to
CurrentBlock == model.transformer_blocks[k_blk + 1]

\* Mutant of VariancePathInput: the second call is fed the mean path's tensor.
VariancePathInputFromMean == [shape |-> x1, lin |-> lin1]

\* the argument of the loop's second call, transformer(x2)
VariancePathInput == [shape |-> x2, lin |-> lin2]

\* the argument of the loop's first call, transformer(x1)
MeanPathInput == [shape |-> x1, lin |-> lin1]

BlockOn(arg) == TransformerBlock(cfg.embed_dim, cfg.num_heads, cfg.fc_ratio, arg.shape)

Applied(path, arg) ==
    Append(applied, [block |-> CurrentBlock, k |-> k_blk, path |-> path, input |-> arg.lin])

Through(arg) == [origin |-> arg.lin.origin, blocks |-> Append(arg.lin.blocks, CurrentBlock)]

\* x1 = transformer(x1)
FwTransformerX1 ==
    /\ pc = "transformer_x1"
    /\ k_blk < Len(model.transformer_blocks)
    /\ LET r == BlockOn(MeanPathInput)
       IN  IF r.ok
           THEN /\ x1' = r.shape
                /\ lin1' = Through(MeanPathInput)
                /\ applied' = Applied("x1", MeanPathInput)
                /\ Goto("transformer_x2")
           ELSE /\ Raise("transformer")
                /\ UNCHANGED <<x1, lin1, applied>>
    /\ UNCHANGED <<x, x2, x3, x4, lin2, k_blk, buffers>>
    /\ UNCHANGED fwFixed
    /\ UNCHANGED <<vpVars, atVars>>

\* x2 = transformer(x2), then the loop moves to the next block
FwTransformerX2 ==
    /\ pc = "transformer_x2"
    /\ LET r == BlockOn(VariancePathInput)
       IN  IF r.ok
           THEN /\ x2' = r.shape
                /\ lin2' = Through(VariancePathInput)
                /\ applied' = Applied("x2", VariancePathInput)
                /\ k_blk' = k_blk + 1
                /\ Goto("transformer_x1")
           ELSE /\ Raise("transformer")
                /\ UNCHANGED <<x2, lin2, applied, k_blk>>
    /\ UNCHANGED <<x, x1, x3, x4, lin1, buffers>>
    /\ UNCHANGED fwFixed
    /\ UNCHANGED <<vpVars, atVars>>

\* the loop over self.transformer_blocks is exhausted;
\* x1, x2 = unsqueeze(dim=2); x = torch.cat((x1, x2), dim=2)
FwFuse ==
    /\ pc = "transformer_x1"
    /\ k_blk >= Len(model.transformer_blocks)
    /\ LET r == Cat(<<Unsqueeze(x1, 2), Unsqueeze(x2, 2)>>, 2)
       IN  IF r.ok
           THEN /\ x1' = Unsqueeze(x1, 2)
                /\ x2' = Unsqueeze(x2, 2)
                /\ x' = r.shape
                /\ Goto("feature_encoder")
           ELSE /\ Raise("fuse")
                /\ UNCHANGED <<x, x1, x2>>
    /\ UNCHANGED <<x3, x4, lin1, lin2, applied, k_blk, buffers>>
    /\ UNCHANGED fwFixed
    /\ UNCHANGED <<vpVars, atVars>>

\* x = self.feature_encoder(x): Conv2d(122, 64, (2, 1)), BatchNorm2d(64), ELU
FwFeatureEncoder ==
    /\ pc = "feature_encoder"
    /\ LET c == Conv2d(model.encoder_in, model.encoder_out, 2, 1, 0, 0, x)
           r == IF c.ok
                THEN BatchNorm2d(buffers.feature_encoder, model.encoder_out, training,
                                 c.shape)
                ELSE [ok |-> FALSE, shape |-> NoShape, buf |-> buffers.feature_encoder]
       IN  /\ buffers' = [buffers EXCEPT !.feature_encoder = r.buf]
           /\ IF r.ok THEN x' = r.shape /\ Goto("classifier")
                      ELSE Raise("feature_encoder") /\ UNCHANGED x
    /\ UNCHANGED <<x1, x2, x3, x4, lin1, lin2, applied, k_blk>>
    /\ UNCHANGED fwFixed
    /\ UNCHANGED <<vpVars, atVars>>

\* x = x.reshape(x.size(0), -1); out = self.classifier(x); return out
FwClassifier ==
    /\ pc = "classifier"
    /\ LET r == Linear(model.classifier_in, model.classifier_out, Flatten(x))
       IN  IF r.ok THEN x' = r.shape /\ Goto("returned")
                   ELSE Raise("classifier") /\ UNCHANGED x
    /\ UNCHANGED <<x1, x2, x3, x4, lin1, lin2, applied, k_blk, buffers>>
    /\ UNCHANGED fwFixed
    /\ UNCHANGED <<vpVars, atVars>>

NextFwd ==
    \/ Construct
    \/ SetMode
    \/ Call
    \/ FwUnsqueeze
    \/ FwTemporalConv
    \/ FwCat
    \/ FwBatchNorm1
    \/ FwSpatialConv
    \/ FwBatchNorm2
    \/ FwSqueeze
    \/ FwAveragePooling
    \/ FwVariancePooling
    \/ FwRearrange
    \/ FwTransformerX1
    \/ FwTransformerX2
    \/ FwFuse
    \/ FwFeatureEncoder
    \/ FwClassifier

SpecFwd == InitFwd /\ [][NextFwd]_vars

\* the default specification: the model's forward pass
Spec == SpecFwd

(***************************************************************************)
(* Properties of EnhancedVariancePooling (checked under SpecPool)          *)
(***************************************************************************)

VpEnded == vp_pc \in {"cat", "done", "error"}

\* the window the j-th iteration read from row r
VpWindowOf(r, j) == Slice(vp_x[r], (j - 1) * stride, kernel_size)

IsConstant(w) == \A a, b \in 1 .. Len(w) : w[a] = w[b]

\* 1e-6 <= a <= 1e6 for a fraction a
InClampRange(a) ==
    /\ ~a.nan
    /\ a.den > 0
    /\ a.num > (a.den - 1) \div 1000000
    /\ (a.num + 999999) \div 1000000 <= a.den

\* C2: for window >= 1, stride >= 1 and T >= window, the variance pooling
\* returns a tensor whose time axis has as many entries as AvgPool1d(window,
\* stride) produces, and both equal floor((T - window)/stride) + 1, the value
\* __init__ stores in temporal_embedding_dim when T = num_samples.
C2_PoolLengthsAgree ==
    (vp_pc \in {"done", "error"} /\ VpT >= kernel_size) =>
        /\ vp_pc = "done"
        /\ \A r \in Rows :
            /\ Len(vp_result[r]) = AvgPool1dLen(VpT, kernel_size, stride)
            /\ Len(vp_result[r]) = ((VpT - kernel_size) \div stride) + 1
            /\ Len(vp_result[r]) = TemporalEmbeddingDim(VpT, kernel_size, stride)

C2_Witness ==
    /\ vp_pc = "done"
    /\ Len(vp_result[1]) >= 2
    /\ kernel_size >= 2

\* C7 as stated: for every kernel_size >= 1, a window of equal values has
\* pre-clamp variance 0 and emits log(1e-6), and every emitted value is the
\* log of a number inside [1e-6, 1e6].
C7_Original ==
    \A j \in 1 .. Len(vp_out) : \A r \in Rows :
        /\ IsConstant(VpWindowOf(r, j)) =>
              /\ ~Var(VpWindowOf(r, j)).nan
              /\ Var(VpWindowOf(r, j)).num = 0
              /\ vp_out[j][r] = Log(ClampMin)
        /\ InClampRange(vp_out[j][r].log)

\* C7 amended: the same for kernel_size >= 2; with kernel_size = 1 the
\* Bessel-corrected variance of the single sample is 0/0 = NaN, which the
\* clamp and the log pass on.
C7_ClampedLogVariance ==
    \A j \in 1 .. Len(vp_out) : \A r \in Rows :
        /\ kernel_size >= 2 =>
              /\ IsConstant(VpWindowOf(r, j)) =>
                    /\ ~Var(VpWindowOf(r, j)).nan
                    /\ Var(VpWindowOf(r, j)).num = 0
                    /\ vp_out[j][r] = Log(ClampMin)
              /\ InClampRange(vp_out[j][r].log)
        /\ kernel_size = 1 => vp_out[j][r].log.nan

C7_Witness ==
    /\ vp_pc = "done"
    /\ kernel_size >= 2
    /\ \E j \in 1 .. Len(vp_out) :
          /\ IsConstant(VpWindowOf(1, j))
          /\ vp_out[j][1] = Log(ClampMin)
          /\ vp_out[j][2] = Log(ClampMax)

\* C10: the loop visits exactly max(0, floor((T - kernel_size)/stride) + 1)
\* windows; window i covers [i*stride, i*stride + kernel_size) inside [0, T),
\* so every slice holds exactly kernel_size samples; when T < kernel_size no
\* window is visited and the operator ends in an error, not in a tensor.
C10_WindowsInsideInput ==
    /\ \A j \in 1 .. Len(vp_out) :
          /\ (j - 1) * stride + kernel_size <= VpT
          /\ \A r \in Rows : Len(VpWindowOf(r, j)) = kernel_size
    /\ vp_i > 0 => \A r \in Rows :
          /\ Len(vp_input[r]) = kernel_size
          /\ vp_input[r] = [n \in 1 .. kernel_size |-> vp_x[r][(vp_i - 1) * stride + n]]
    /\ Len(vp_out) = vp_i
    /\ VpEnded =>
          vp_i = Cardinality({w \in 0 .. VpT : w * stride + kernel_size <= VpT})
    /\ (VpEnded /\ VpT < kernel_size) => vp_i = 0 /\ vp_pc # "done"
    /\ (vp_pc = "error") <=> (vp_pc \in {"done", "error"} /\ VpT < kernel_size)

C10_Witness ==
    /\ vp_pc = "done"
    /\ vp_i >= 1
    /\ (VpT - kernel_size) % stride # 0
    /\ vp_i * stride < VpT

(***************************************************************************)
(* Properties of attention (checked under SpecAttn)                        *)
(***************************************************************************)

AtReturned == at_pc \in {"returned", "project", "done"}

AtFinished == at_pc \in {"returned", "project", "done", "error"} /\ at_query # NoShape

\* query [b,h,q,d], key [b,h,k,d], value [b,h,k,d]
AtWellShaped ==
    /\ Len(at_query) = 4 /\ Len(at_key) = 4 /\ Len(at_value) = 4
    /\ at_key[1] = at_query[1] /\ at_key[2] = at_query[2] /\ at_key[4] = at_query[4]
    /\ at_value = at_key

\* C6 as stated: for query [b,h,q,d], key [b,h,k,d], value [b,h,k,d] the
\* first returned tensor has exactly value's shape and the second, the
\* attention weights, has shape [b,h,q,k].
C6_Original ==
    (AtFinished /\ AtWellShaped) =>
        /\ AtReturned
        /\ at_out = at_value
        /\ at_attn = <<at_query[1], at_query[2], at_query[3], at_key[3]>>

\* C6 amended: the first returned tensor has query's shape [b,h,q,d] (value's
\* shape only when q = k, as in the self-attention calls the multi-head
\* forward makes); the attention weights have shape [b,h,q,k].
C6_AttentionShapes ==
    /\ (AtFinished /\ AtWellShaped) =>
          /\ AtReturned
          /\ at_out = at_query
          /\ at_attn = <<at_query[1], at_query[2], at_query[3], at_key[3]>>
          /\ (at_query[3] = at_key[3]) <=> (at_out = at_value)
    /\ (AtFinished /\ at_n_head # 0) => (AtWellShaped /\ at_query[3] = at_key[3])

C6_Witness ==
    /\ at_pc = "returned"
    /\ AtWellShaped
    /\ at_query[3] # at_key[3]
    /\ at_query[4] > 1
    /\ at_out = at_query

(***************************************************************************)
(* Properties of NeuroTransNet (checked under SpecFwd)                     *)
(***************************************************************************)

Divides(a, b) == a # 0 /\ b % a = 0

\* embed_dim divisible by 4, num_heads dividing embed_dim, num_samples >= pool_size
ValidConfig ==
    /\ cfg.embed_dim % 4 = 0
    /\ Divides(cfg.num_heads, cfg.embed_dim)
    /\ cfg.num_samples >= cfg.pool_size

InForward == pc \notin {"new", "init_raised", "ready"}

Ended == pc \in {"returned", "raised"}

ChannelsMatch == inp[2] = cfg.num_channels

SamplesMatch == inp[3] = cfg.num_samples

FreshBuffers ==
    [batch_norm1 |-> FreshBatchNorm,
     batch_norm2 |-> FreshBatchNorm,
     feature_encoder |-> FreshBatchNorm]

\* C1: for every configuration meeting the stated constraints and every input
\* shaped [batch, num_channels, num_samples], the construction succeeds and
\* forward completes without a shape error, returning [batch, num_classes];
\* with num_samples = 1000, pool 50 / 15 the model has temporal_embedding_dim 64.
C1_ForwardReturnsLogits ==
    ValidConfig =>
        /\ pc # "init_raised"
        /\ (pc = "ready" /\ cfg.num_samples = 1000) => model.temporal_embedding_dim = 64
        /\ (Ended /\ ChannelsMatch /\ SamplesMatch) =>
              /\ pc = "returned"
              /\ x = <<inp[1], cfg.num_classes>>

\* C3: a configuration whose embed_dim is not divisible by 4, or whose
\* num_heads does not divide embed_dim, ends __init__ in an error: it never
\* constructs successfully.
C3_InvalidConfigFailsAtInit ==
    (cfg.embed_dim % 4 # 0 \/ ~Divides(cfg.num_heads, cfg.embed_dim)) =>
        pc \in {"new", "init_raised"}

C5_Original ==
    pc \notin {"new", "init_raised"} => buffers = FreshBuffers

\* C5 amended: forward never changes the layers or the mode, and in
\* evaluation mode it changes no buffer; in training mode each BatchNorm2d
\* layer it reaches adds 1 to its num_batches_tracked (and, when the
\* normalisation succeeds, updates its running statistics), and nothing else
\* changes.
C5_EvalForwardKeepsBuffers ==
    [][pc # "new" =>
          /\ model' = model
          /\ cfg' = cfg
          /\ ~Between => training' = training
          /\ ~training => buffers' = buffers
          /\ buffers' # buffers =>
                /\ pc \in {"batch_norm1", "batch_norm2", "feature_encoder"}
                /\ \A l \in DOMAIN buffers : l # pc => buffers'[l] = buffers[l]
          /\ (training /\ pc \in {"batch_norm1", "batch_norm2"}) =>
                /\ buffers'[pc].num_batches_tracked = buffers[pc].num_batches_tracked + 1
                /\ pc' # "raised" =>
                      buffers'[pc].running_updates = buffers[pc].running_updates + 1
    ]_vars

C5_Witness ==
    /\ ~training
    /\ pc = "average_pooling"
    /\ calls = 2
    /\ buffers.batch_norm1 = [num_batches_tracked |-> 1, running_updates |-> 1]
    /\ buffers.batch_norm2 = [num_batches_tracked |-> 1, running_updates |-> 1]

\* C8: for every input time length T >= 1 each of the four temporal
\* convolutions (widths 15, 25, 51, 65, paddings 7, 12, 25, 32) yields time
\* length T and the unchanged electrode axis, so the four outputs concatenate
\* on the feature axis into 4 * (embed_dim // 4) channels, which is embed_dim
\* whenever embed_dim is divisible by 4.
C8_TemporalConvsKeepTime ==
    /\ fail_stage \notin {"temporal_conv", "cat"}
    /\ pc = "cat" =>
          \A t \in {x1, x2, x3, x4} : t = <<inp[1], cfg.embed_dim \div 4, inp[2], inp[3]>>
    /\ pc = "batch_norm1" =>
          /\ x = <<inp[1], 4 * (cfg.embed_dim \div 4), inp[2], inp[3]>>
          /\ (cfg.embed_dim % 4 = 0) <=> (x[2] = cfg.embed_dim)

C8_Witness ==
    /\ pc = "batch_norm1"
    /\ inp[3] = 1
    /\ inp[2] # cfg.num_channels
    /\ x = <<inp[1], cfg.embed_dim, inp[2], 1>>

LoopDone ==
    \/ pc \in {"feature_encoder", "classifier", "returned"}
    \/ pc = "raised" /\ fail_stage \in {"fuse", "feature_encoder", "classifier"}

\* C9: the transformer stack is applied in index order to both pooled paths
\* with the same block instances: block k is applied exactly once to the mean
\* path and once to the variance path, both before block k+1; its input on a
\* path is the output of block k-1 on that same path; the model holds exactly
\* depth blocks (no second stack).
C9_SharedStackInOrder ==
    /\ pc \notin {"new", "init_raised"} =>
          /\ Len(model.transformer_blocks) = cfg.depth
          /\ \A i, j \in 1 .. cfg.depth :
                model.transformer_blocks[i] = model.transformer_blocks[j] => i = j
    /\ \A i \in 1 .. Len(applied) :
          LET e == applied[i]
          IN  /\ e.k = (i - 1) \div 2
              /\ e.path = IF i % 2 = 1 THEN "x1" ELSE "x2"
              /\ e.block = model.transformer_blocks[e.k + 1]
              /\ e.input.origin = IF e.path = "x1" THEN "mean" ELSE "variance"
              /\ e.input.blocks = SubSeq(model.transformer_blocks, 1, e.k)
    /\ LoopDone =>
          /\ Len(applied) = 2 * cfg.depth
          /\ lin1 = [origin |-> "mean", blocks |-> model.transformer_blocks]
          /\ lin2 = [origin |-> "variance", blocks |-> model.transformer_blocks]

C9_Witness ==
    /\ pc = "feature_encoder"
    /\ cfg.depth >= 2
    /\ Len(applied) = 2 * cfg.depth
    /\ applied[4].input = [origin |-> "variance", blocks |-> <<model.transformer_blocks[1]>>]

====
